---- MODULE Spec2Model ----
(***************************************************************************)
(* Model of csfin-toolkit's date utilities                                 *)
(* (packages/core/src/utils/dateutils.ts) and of the raw-record            *)
(* converters (convertToTransaction, convertToQuoteData).                  *)
(*                                                                         *)
(* Texts are sequences of one-character strings, so that pattern tests,    *)
(* splitting and numeric conversion are computed and not assumed.          *)
(* A Date is its time value, kept as [valid, day, ms]: days since          *)
(* 1970-01-01 UTC and milliseconds within that day; valid = FALSE is the   *)
(* "Invalid Date" (NaN time value).                                        *)
(* The host environment is part of the state: tz is the host's local       *)
(* offset from UTC in minutes, lenientISO tells whether the engine's ISO   *)
(* string constructor rolls an overlong day (2025-06-31) forward or        *)
(* answers Invalid Date.                                                   *)
(***************************************************************************)
EXTENDS Integers, Sequences, FiniteSets, TLC

VARIABLES tz, lenientISO, call, out

vars == <<tz, lenientISO, call, out>>

-----------------------------------------------------------------------------
(* Characters and texts *)

DigitSeq == <<"0", "1", "2", "3", "4", "5", "6", "7", "8", "9">>

DigitChars == {DigitSeq[i] : i \in 1..10}

DigitVal(c) == (CHOOSE i \in 1..10 : DigitSeq[i] = c) - 1

AllDigits(s, from, to) == \A i \in from..to : s[i] \in DigitChars

\* Number(text) for a text of decimal digits (Number("") is 0).
RECURSIVE Number(_)
Number(s) ==
    IF Len(s) = 0 THEN 0
    ELSE 10 * Number(SubSeq(s, 1, Len(s) - 1)) + DigitVal(s[Len(s)])

\* String.prototype.split with a character-class separator.
RECURSIVE SplitFrom(_, _, _, _)
SplitFrom(s, seps, i, cur) ==
    IF i > Len(s) THEN <<cur>>
    ELSE IF s[i] \in seps THEN <<cur>> \o SplitFrom(s, seps, i + 1, <<>>)
    ELSE SplitFrom(s, seps, i + 1, Append(cur, s[i]))

Split(s, seps) == SplitFrom(s, seps, 1, <<>>)

MapNumber(parts) == [i \in 1..Len(parts) |-> Number(parts[i])]

-----------------------------------------------------------------------------
(* The engine's Date: calendar arithmetic *)

MsPerDay == 86400000

MsPerMinute == 60000

\* Day number of the proleptic Gregorian date y-m-d (m in 1..12).
DaysFromCivil(y, m, d) ==
    LET yy  == IF m <= 2 THEN y - 1 ELSE y
        era == yy \div 400
        yoe == yy - era * 400
        mp  == IF m > 2 THEN m - 3 ELSE m + 9
        doy == (153 * mp + 2) \div 5 + d - 1
        doe == yoe * 365 + yoe \div 4 - yoe \div 100 + doy
    IN  era * 146097 + doe - 719468

\* The proleptic Gregorian date of a day number.
CivilFromDays(z) ==
    LET zz  == z + 719468
        era == zz \div 146097
        doe == zz - era * 146097
        yoe == (doe - doe \div 1460 + doe \div 36524 - doe \div 146096) \div 365
        doy == doe - (365 * yoe + yoe \div 4 - yoe \div 100)
        mp  == (5 * doy + 2) \div 153
        d   == doy - (153 * mp + 2) \div 5 + 1
        m   == IF mp < 10 THEN mp + 3 ELSE mp - 9
        y   == yoe + era * 400 + (IF m <= 2 THEN 1 ELSE 0)
    IN  [year |-> y, month |-> m, day |-> d]

IsLeapYear(y) == (y % 4 = 0 /\ y % 100 # 0) \/ y % 400 = 0

DaysInMonth(y, m) ==
    IF m = 2 THEN (IF IsLeapYear(y) THEN 29 ELSE 28)
    ELSE IF m \in {4, 6, 9, 11} THEN 30 ELSE 31

\* MakeDay(year, month, date): month is 0-based and may lie outside 0..11,
\* date may lie outside the month; both carry over.
MakeDay(year, month, date) ==
    LET ym == year + month \div 12
        mn == month % 12
    IN  DaysFromCivil(ym, mn + 1, 1) + date - 1

InvalidDate == [valid |-> FALSE, day |-> 0, ms |-> 0]

\* Date.UTC(year, month, day): a year in 0..99 means 1900 + year.
DateUTC(year, month, day) ==
    LET yr == IF year >= 0 /\ year <= 99 THEN 1900 + year ELSE year
    IN  [valid |-> TRUE, day |-> MakeDay(yr, month, day), ms |-> 0]

\* The local calendar day of a time value on a host tzOffset minutes east
\* of UTC.
LocalCivil(date, tzOffset) ==
    CivilFromDays(date.day + (date.ms + tzOffset * MsPerMinute) \div MsPerDay)

getFullYear(date, tzOffset) == LocalCivil(date, tzOffset).year

getMonth(date, tzOffset) == LocalCivil(date, tzOffset).month - 1

getDate(date, tzOffset) == LocalCivil(date, tzOffset).day

getUTCFullYear(date) == CivilFromDays(date.day).year

getUTCMonth(date) == CivilFromDays(date.day).month - 1

getUTCDate(date) == CivilFromDays(date.day).day

\* /^\d{4}-\d{2}-\d{2}$/
MatchesISO(s) ==
    /\ Len(s) = 10
    /\ AllDigits(s, 1, 4) /\ s[5] = "-"
    /\ AllDigits(s, 6, 7) /\ s[8] = "-"
    /\ AllDigits(s, 9, 10)

\* /^\d{2}\.\d{2}\.\d{4}$/ (sep = ".") and /^\d{2}\/\d{2}\/\d{4}$/ (sep = "/")
MatchesShort(s, sep) ==
    /\ Len(s) = 10
    /\ AllDigits(s, 1, 2) /\ s[3] = sep
    /\ AllDigits(s, 4, 5) /\ s[6] = sep
    /\ AllDigits(s, 7, 10)

\* new Date(text) for a text of the shape YYYY-MM-DD: a date-only ISO text
\* is UTC midnight of that day; a month outside 01..12 or a day outside
\* 01..31 is Invalid Date; a day in 01..31 beyond the month's length is
\* Invalid Date on a strict engine and rolls forward on a lenient one.
NewDateFromString(s, lenient) ==
    LET comps == MapNumber(Split(s, {"-"}))
        y == comps[1]
        m == comps[2]
        d == comps[3]
    IN  IF m < 1 \/ m > 12 \/ d < 1 \/ d > 31 THEN InvalidDate
        ELSE IF d > DaysInMonth(y, m) /\ ~lenient THEN InvalidDate
        ELSE [valid |-> TRUE, day |-> MakeDay(y, m - 1, d), ms |-> 0]

-----------------------------------------------------------------------------
(* dateutils.ts *)

\* Variant: the local-time constructor new Date(year, month - 1, day).
createDateFromComps_local(year, month, day, tzOffset) ==
    LET yr  == IF year >= 0 /\ year <= 99 THEN 1900 + year ELSE year
        utc == 0 - tzOffset * MsPerMinute
    IN  [valid |-> TRUE,
         day |-> MakeDay(yr, month - 1, day) + utc \div MsPerDay,
         ms |-> utc % MsPerDay]

createDateFromComps(year, month, day, tzOffset) ==
    DateUTC(year, month - 1, day)

\* Variant: only the year is compared after the round trip.
isValidDateComponents_yearOnly(year, month, day, tzOffset) ==
    LET date == createDateFromComps(year, month, day, tzOffset)
    IN  getFullYear(date, tzOffset) = year

isValidDateComponents(year, month, day, tzOffset) ==
    LET date == createDateFromComps(year, month, day, tzOffset)
    IN  /\ getFullYear(date, tzOffset) = year
        /\ getMonth(date, tzOffset) = month - 1
        /\ getDate(date, tzOffset) = day

\* split(/[\\.\\/]/): the class holds the backslash, the dot and the slash.
getCompsFromFormatted(formattedDate) ==
    MapNumber(Split(formattedDate, {"\\", ".", "/"}))

isValidISODateString(dateString, tzOffset, lenient) ==
    IF ~MatchesISO(dateString) THEN FALSE
    ELSE IF ~NewDateFromString(dateString, lenient).valid THEN FALSE
    ELSE LET c == MapNumber(Split(dateString, {"-"}))
         IN  isValidDateComponents(c[1], c[2], c[3], tzOffset)

isValidFormattedString(formattedDate, tzOffset) ==
    IF ~(MatchesShort(formattedDate, ".") \/ MatchesShort(formattedDate, "/"))
    THEN FALSE
    ELSE LET c == getCompsFromFormatted(formattedDate)
         IN  isValidDateComponents(c[3], c[2], c[1], tzOffset)

createDateFromFormatted(formattedDate, tzOffset) ==
    LET c == getCompsFromFormatted(formattedDate)
    IN  createDateFromComps(c[3], c[2], c[1], tzOffset)

Returned(v) == [ok |-> TRUE, value |-> v]

Threw(message, offending) ==
    [ok |-> FALSE, error |-> [message |-> message, arg |-> offending]]

InvalidDateMsg == "Invalid date string provided: "

\* A string | Date argument: a text or a date value.
StringArg(s) == [isString |-> TRUE, text |-> s]

DateArg(t) == [isString |-> FALSE, date |-> t]

\* dateOrString is StringArg(text) or DateArg(date).
getDateObject(dateOrString, tzOffset, lenient) ==
    IF dateOrString.isString
    THEN IF isValidISODateString(dateOrString.text, tzOffset, lenient)
         THEN Returned(NewDateFromString(dateOrString.text, lenient))
         ELSE IF isValidFormattedString(dateOrString.text, tzOffset)
         THEN Returned(createDateFromFormatted(dateOrString.text, tzOffset))
         ELSE Threw(InvalidDateMsg, dateOrString.text)
    ELSE Returned(dateOrString.date)

-----------------------------------------------------------------------------
(* Collaborators from the core package *)

\* Numbers are kept in hundredths: 100.50 is 10050.
\* The fraction of a numeric text: one or two digits.
FractionValue(f) == IF Len(f) = 1 THEN 10 * Number(f) ELSE Number(f)

UnsignedValue(s) ==
    LET parts == Split(s, {".", ","})
    IN  IF Len(parts) = 1 THEN 100 * Number(parts[1])
        ELSE 100 * Number(parts[1]) + FractionValue(parts[2])

IsUnsignedNumeric(s) ==
    LET parts == Split(s, {".", ","})
    IN  /\ Len(parts) \in {1, 2}
        /\ Len(parts[1]) >= 1
        /\ AllDigits(parts[1], 1, Len(parts[1]))
        /\ Len(parts) = 2 =>
              /\ Len(parts[2]) \in {1, 2}
              /\ AllDigits(parts[2], 1, Len(parts[2]))

NumberParseMsg == "Unable to parse number: "

\* A numeric text is an optional minus sign, digits, and optionally a
\* decimal separator (dot or comma, by locale) with a fraction.
parseNumberWithAutoLocale(text) ==
    IF Len(text) >= 1 /\ text[1] = "-"
    THEN IF IsUnsignedNumeric(Tail(text))
         THEN Returned(0 - UnsignedValue(Tail(text)))
         ELSE Threw(NumberParseMsg, text)
    ELSE IF IsUnsignedNumeric(text)
         THEN Returned(UnsignedValue(text))
         ELSE Threw(NumberParseMsg, text)

Transaction(executionDate, type, shares, price, exchange, fees) ==
    [executionDate |-> executionDate, type |-> type, shares |-> shares,
     price |-> price, exchange |-> exchange, fees |-> fees]

QuoteItem(date, price) == [date |-> date, price |-> price]

-----------------------------------------------------------------------------
(* Converters *)

Abs(n) == IF n < 0 THEN 0 - n ELSE n

\* null, as opposed to an identifier [tag |-> "id", text |-> ...].
Null == [tag |-> "null"]

InvalidTypeMsg == "Invalid raw transaction type: "

\* Variant: the lower-case spelling of a token is accepted as well.
convertRawType_anyCase(rawType) ==
    IF rawType \in {"Kauf", "kauf"} THEN Returned("BUY")
    ELSE IF rawType \in {"Verkauf", "verkauf"} THEN Returned("SELL")
    ELSE Threw(InvalidTypeMsg, rawType)

convertRawType(rawType) ==
    IF rawType = "Kauf" THEN Returned("BUY")
    ELSE IF rawType = "Verkauf" THEN Returned("SELL")
    ELSE Threw(InvalidTypeMsg, rawType)

\* Variant: the fees keep their sign.
convertToTransaction_signedFees(data, tzOffset, lenient) ==
    LET date   == getDateObject(StringArg(data.executionDate), tzOffset, lenient)
        type   == convertRawType(data.type)
        shares == parseNumberWithAutoLocale(data.shares)
        price  == parseNumberWithAutoLocale(data.price)
        fees   == parseNumberWithAutoLocale(data.totalFees)
    IN  IF ~date.ok THEN date
        ELSE IF ~type.ok THEN type
        ELSE IF ~shares.ok THEN shares
        ELSE IF ~price.ok THEN price
        ELSE IF ~fees.ok THEN fees
        ELSE Returned(Transaction(date.value, type.value, Abs(shares.value),
                                  price.value, Null, fees.value))

\* Variant: the type is mapped before the date is parsed.
convertToTransaction_typeFirst(data, tzOffset, lenient) ==
    LET date   == getDateObject(StringArg(data.executionDate), tzOffset, lenient)
        type   == convertRawType(data.type)
        shares == parseNumberWithAutoLocale(data.shares)
        price  == parseNumberWithAutoLocale(data.price)
        fees   == parseNumberWithAutoLocale(data.totalFees)
    IN  IF ~type.ok THEN type
        ELSE IF ~date.ok THEN date
        ELSE IF ~shares.ok THEN shares
        ELSE IF ~price.ok THEN price
        ELSE IF ~fees.ok THEN fees
        ELSE Returned(Transaction(date.value, type.value, Abs(shares.value),
                                  price.value, Null, Abs(fees.value)))

\* Variant: the exchange defaults to the empty identifier.
convertToTransaction_emptyExchange(data, tzOffset, lenient) ==
    LET date   == getDateObject(StringArg(data.executionDate), tzOffset, lenient)
        type   == convertRawType(data.type)
        shares == parseNumberWithAutoLocale(data.shares)
        price  == parseNumberWithAutoLocale(data.price)
        fees   == parseNumberWithAutoLocale(data.totalFees)
    IN  IF ~date.ok THEN date
        ELSE IF ~type.ok THEN type
        ELSE IF ~shares.ok THEN shares
        ELSE IF ~price.ok THEN price
        ELSE IF ~fees.ok THEN fees
        ELSE Returned(Transaction(date.value, type.value, Abs(shares.value),
                                  price.value, [tag |-> "id", text |-> <<>>],
                                  Abs(fees.value)))

\* The constructor's arguments are evaluated left to right; the first one
\* that throws ends the call.
convertToTransaction(data, tzOffset, lenient) ==
    LET date   == getDateObject(StringArg(data.executionDate), tzOffset, lenient)
        type   == convertRawType(data.type)
        shares == parseNumberWithAutoLocale(data.shares)
        price  == parseNumberWithAutoLocale(data.price)
        fees   == parseNumberWithAutoLocale(data.totalFees)
    IN  IF ~date.ok THEN date
        ELSE IF ~type.ok THEN type
        ELSE IF ~shares.ok THEN shares
        ELSE IF ~price.ok THEN price
        ELSE IF ~fees.ok THEN fees
        ELSE Returned(Transaction(date.value, type.value, Abs(shares.value),
                                  price.value, Null, Abs(fees.value)))

\* Variant: the item's date goes through getDateObject.
convertToQuoteItem_parsedDate(data) ==
    LET date  == getDateObject(StringArg(data.date), tz, lenientISO)
        price == parseNumberWithAutoLocale(data.price)
    IN  IF ~date.ok THEN date
        ELSE IF ~price.ok THEN price
        ELSE Returned(QuoteItem(date.value, price.value))

convertToQuoteItem(data) ==
    LET price == parseNumberWithAutoLocale(data.price)
    IN  IF ~price.ok THEN price
        ELSE Returned(QuoteItem(data.date, price.value))

\* items.map(convertToQuoteItem): element by element, in order; the first
\* element whose conversion throws ends the call.
RECURSIVE MapItems(_, _, _)
MapItems(items, i, acc) ==
    IF i > Len(items) THEN Returned(acc)
    ELSE LET r == convertToQuoteItem(items[i])
         IN  IF ~r.ok THEN r ELSE MapItems(items, i + 1, Append(acc, r.value))

convertToQuoteData(data) ==
    LET items == MapItems(data.items, 1, <<>>)
    IN  IF ~items.ok THEN items
        ELSE Returned([name |-> data.name, nsin |-> data.nsin,
                       exchange |-> data.exchange, items |-> items.value])

-----------------------------------------------------------------------------
(* Inputs *)

Pad2(n) == <<DigitSeq[((n \div 10) % 10) + 1], DigitSeq[(n % 10) + 1]>>

Pad4(n) == Pad2(n \div 100) \o Pad2(n % 100)

FormatISO(y, m, d) == Pad4(y) \o <<"-">> \o Pad2(m) \o <<"-">> \o Pad2(d)

FormatShort(y, m, d, sep1, sep2) ==
    Pad2(d) \o <<sep1>> \o Pad2(m) \o <<sep2>> \o Pad4(y)

Years == {50, 1900, 2000, 2024, 2025}

Months == {0, 1, 2, 6, 12, 13}

Days == {0, 1, 15, 28, 29, 30, 31, 32}

TZOffsets == {-300, 0, 330}

Malformed ==
    { <<>>,
      <<"2", "0", "2", "5", "-", "6", "-", "1">>,
      <<"1", ".", "6", ".", "2", "0", "2", "5">>,
      <<"2", "0", "2", "5", "-", "0", "6", "-", "1", "5", " ">>,
      <<"2", "0", "2", "5", "/", "0", "6", "/", "1", "5">>,
      <<"1", "5", "-", "0", "6", "-", "2", "0", "2", "5">>,
      <<"1", "5", "\\", "0", "6", "\\", "2", "0", "2", "5">>,
      <<"a", "b", "c">> }

DateTexts ==
    {FormatISO(y, m, d) : y \in Years, m \in Months, d \in Days}
    \cup {FormatShort(y, m, d, ".", ".") : y \in Years, m \in Months, d \in Days}
    \cup {FormatShort(y, m, d, "/", "/") : y \in Years, m \in Months, d \in Days}
    \cup {FormatShort(y, m, d, ".", "/") : y \in Years, m \in Months, d \in Days}
    \cup Malformed

DateValues ==
    {[valid |-> TRUE, day |-> dd, ms |-> t] :
        dd \in {0, 18628, 20254}, t \in {0, 1, 43200000, 86399999}}

NumTexts ==
    { <<"1", "0">>,
      <<"-", "5">>,
      <<"1", "0", "0", ".", "5", "0">>,
      <<"1", "0", "0", ",", "5", "0">>,
      <<"-", "1", ".", "5", "0">>,
      <<"a", "b", "c">> }

TypeTokens == {"Kauf", "Verkauf", "kauf", " Kauf", "Verkauf ", ""}

PriceTexts ==
    { <<"1", "0", "0", ".", "5", "0">>, <<"9", "9", ",", "5">>,
      <<"-", "5">>, <<"a", "b", "c">> }

FeeTexts ==
    { <<"-", "1", ".", "5", "0">>, <<"1", ",", "5", "0">>, <<"0">>, <<>> }

TxDateTexts ==
    { FormatISO(2023, 1, 2), FormatShort(2020, 12, 31, ".", "."),
      FormatShort(2025, 6, 31, "/", "/"), <<"a", "b", "c">> }

RawTransactions ==
    [executionDate : TxDateTexts, type : TypeTokens, shares : NumTexts,
     price : PriceTexts, totalFees : FeeTexts]

MaxItems == 2

RawQuoteItems ==
    [date : {FormatISO(2023, 1, 2), FormatISO(2025, 6, 31), <<"a", "b", "c">>},
     price : { <<"1", "0", "0", ".", "5", "0">>, <<"9", "9", ",", "5">>,
               <<"a", "b", "c">> }]

RawItemSeqs == UNION {[1..n -> RawQuoteItems] : n \in 0..MaxItems}

QuoteHeaders ==
    { [name |-> "ACME", nsin |-> "A0B1C2", exchange |-> "XETRA"],
      [name |-> "", nsin |-> "D3E4F5", exchange |-> ""] }

RawQuoteDatas ==
    { [name |-> h.name, nsin |-> h.nsin, exchange |-> h.exchange, items |-> its] :
        h \in QuoteHeaders, its \in RawItemSeqs }

-----------------------------------------------------------------------------
(* State machine *)

NoCall == [op |-> "none"]

Init ==
    /\ tz \in TZOffsets
    /\ lenientISO \in BOOLEAN
    /\ call = NoCall
    /\ out = NoCall

GetDateObjectString ==
    \E s \in DateTexts :
        /\ call = NoCall
        /\ call' = [op |-> "getDateObject", arg |-> StringArg(s)]
        /\ out' = getDateObject(StringArg(s), tz, lenientISO)
        /\ UNCHANGED <<tz, lenientISO>>

GetDateObjectDate ==
    \E t \in DateValues :
        /\ call = NoCall
        /\ call' = [op |-> "getDateObject", arg |-> DateArg(t)]
        /\ out' = getDateObject(DateArg(t), tz, lenientISO)
        /\ UNCHANGED <<tz, lenientISO>>

ConvertToTransaction ==
    \E data \in RawTransactions :
        /\ call = NoCall
        /\ call' = [op |-> "convertToTransaction", arg |-> data]
        /\ out' = convertToTransaction(data, tz, lenientISO)
        /\ UNCHANGED <<tz, lenientISO>>

ConvertToQuoteData ==
    \E data \in RawQuoteDatas :
        /\ call = NoCall
        /\ call' = [op |-> "convertToQuoteData", arg |-> data]
        /\ out' = convertToQuoteData(data)
        /\ UNCHANGED <<tz, lenientISO>>

Next ==
    \/ GetDateObjectString
    \/ GetDateObjectDate
    \/ ConvertToTransaction
    \/ ConvertToQuoteData

Spec == Init /\ [][Next]_vars

-----------------------------------------------------------------------------
(* Properties *)

IsRealDate(y, m, d) == m \in 1..12 /\ d \in 1..DaysInMonth(y, m)

Spellings(y, m, d) ==
    {FormatISO(y, m, d), FormatShort(y, m, d, ".", "."),
     FormatShort(y, m, d, "/", "/")}

CalledOnText == call.op = "getDateObject" /\ call.arg.isString

CalledOnDate == call.op = "getDateObject" /\ ~call.arg.isString

CalledTransaction == call.op = "convertToTransaction"

CalledQuoteData == call.op = "convertToQuoteData"

MatchesNoPattern(s) ==
    ~MatchesISO(s) /\ ~MatchesShort(s, ".") /\ ~MatchesShort(s, "/")

DenotesImpossibleDate(s) ==
    \E y \in Years, m \in Months, d \in Days :
        ~IsRealDate(y, m, d) /\ s \in Spellings(y, m, d)

\* C1: getDateObject of a YYYY-MM-DD text that denotes a real calendar date
\* returns a date whose UTC year, month and day are those written in the
\* text.
C1_IsoRealDateParsed ==
    CalledOnText =>
        \A y \in Years, m \in Months, d \in Days :
            (IsRealDate(y, m, d) /\ call.arg.text = FormatISO(y, m, d)) =>
                /\ out.ok
                /\ out.value.valid
                /\ getUTCFullYear(out.value) = y
                /\ getUTCMonth(out.value) = m - 1
                /\ getUTCDate(out.value) = d

\* C2: getDateObject of a text that matches none of the three patterns, or
\* matches one and denotes an impossible calendar date, throws the invalid
\* date error carrying that text; it never returns a date.
C2_InvalidTextRejected ==
    (/\ CalledOnText
     /\ \/ MatchesNoPattern(call.arg.text)
        \/ DenotesImpossibleDate(call.arg.text))
        => out = Threw(InvalidDateMsg, call.arg.text)

C2_Witness ==
    /\ CalledOnText
    /\ tz = 0
    /\ call.arg.text = FormatShort(2025, 6, 31, "/", "/")
    /\ out = Threw(InvalidDateMsg, call.arg.text)

\* C3: for a real calendar date, getDateObject returns for each of its
\* three spellings (DD.MM.YYYY, DD/MM/YYYY, YYYY-MM-DD) the same date value.
C3_DialectEquivalence ==
    CalledOnText =>
        \A y \in Years, m \in Months, d \in Days :
            (IsRealDate(y, m, d) /\ call.arg.text \in Spellings(y, m, d)) =>
                /\ out.ok
                /\ \A s \in Spellings(y, m, d) :
                       getDateObject(StringArg(s), tz, lenientISO) = out

\* C4: convertToTransaction returns type BUY exactly for the token "Kauf"
\* and SELL exactly for "Verkauf"; with any other token the call fails, and
\* once the date is accepted the failure is the invalid type error carrying
\* the token.
C4_TypeMappingExact ==
    CalledTransaction =>
        LET token == call.arg.type
            date  == getDateObject(StringArg(call.arg.executionDate), tz, lenientISO)
        IN  /\ out.ok =>
                /\ out.value.type \in {"BUY", "SELL"}
                /\ out.value.type = "BUY" <=> token = "Kauf"
                /\ out.value.type = "SELL" <=> token = "Verkauf"
            /\ token \notin {"Kauf", "Verkauf"} =>
                /\ ~out.ok
                /\ date.ok => out = Threw(InvalidTypeMsg, token)
            /\ (/\ token \in {"Kauf", "Verkauf"}
                /\ date.ok
                /\ parseNumberWithAutoLocale(call.arg.shares).ok
                /\ parseNumberWithAutoLocale(call.arg.price).ok
                /\ parseNumberWithAutoLocale(call.arg.totalFees).ok) => out.ok

C4_Witness ==
    /\ CalledTransaction
    /\ call.arg.type = "kauf"
    /\ out = Threw(InvalidTypeMsg, "kauf")

\* C5: when convertToTransaction returns, shares and fees are the absolute
\* values of the numbers parsed from the raw shares and totalFees texts, and
\* price is the number parsed from the raw price text, sign unchanged.
C5_SignNormalization ==
    (CalledTransaction /\ out.ok) =>
        /\ out.value.shares = Abs(parseNumberWithAutoLocale(call.arg.shares).value)
        /\ out.value.fees = Abs(parseNumberWithAutoLocale(call.arg.totalFees).value)
        /\ out.value.shares >= 0
        /\ out.value.fees >= 0
        /\ out.value.price = parseNumberWithAutoLocale(call.arg.price).value

C5_Witness ==
    /\ CalledTransaction
    /\ out.ok
    /\ call.arg.shares = <<"-", "5">>
    /\ call.arg.totalFees = <<"-", "1", ".", "5", "0">>
    /\ call.arg.price = <<"-", "5">>
    /\ out.value.shares = 500
    /\ out.value.fees = 150
    /\ out.value.price = -500

\* C6: convertToQuoteData returns as many items as it was given, item i
\* with the date of input item i unchanged and the number parsed from its
\* price text, and name, nsin and exchange unchanged; a date text that is
\* not a valid date does not make the conversion fail.
C6_QuoteSeriesPreserved ==
    CalledQuoteData =>
        LET raw == call.arg
        IN  /\ (\A i \in 1..Len(raw.items) :
                    parseNumberWithAutoLocale(raw.items[i].price).ok) => out.ok
            /\ out.ok =>
                /\ Len(out.value.items) = Len(raw.items)
                /\ \A i \in 1..Len(raw.items) :
                       /\ out.value.items[i].date = raw.items[i].date
                       /\ out.value.items[i].price =
                              parseNumberWithAutoLocale(raw.items[i].price).value
                /\ out.value.name = raw.name
                /\ out.value.nsin = raw.nsin
                /\ out.value.exchange = raw.exchange

C6_Witness ==
    /\ CalledQuoteData
    /\ out.ok
    /\ Len(call.arg.items) = 2
    /\ call.arg.items[1].date = <<"a", "b", "c">>
    /\ call.arg.items[2].date = FormatISO(2023, 1, 2)
    /\ call.arg.items[1].price # call.arg.items[2].price
    /\ Len(out.value.items) = 2

\* C7 (as claimed): whatever getDateObject returns, for a text or for a date
\* value, has the UTC time of day 00:00:00.000.
C7_AlwaysMidnight ==
    (call.op = "getDateObject" /\ out.ok) => out.value.ms = 0

\* C7 (amended): what getDateObject returns for a text is a valid date at
\* UTC 00:00:00.000; a date value is returned as it was given, time of day
\* included.
C7_TextMidnightDateUnchanged ==
    /\ (CalledOnText /\ out.ok) => (out.value.valid /\ out.value.ms = 0)
    /\ CalledOnDate => out = Returned(call.arg.date)

C7_Witness ==
    /\ CalledOnText
    /\ tz = 330
    /\ MatchesShort(call.arg.text, ".")
    /\ out.ok
    /\ out.value.ms = 0

\* C8: convertToTransaction returns a Transaction only when the date, the
\* type and the three numbers were all accepted; otherwise it throws the
\* error of the first failing step (date, then type, then the numbers) and
\* returns nothing.
C8_FailFast ==
    CalledTransaction =>
        LET date   == getDateObject(StringArg(call.arg.executionDate), tz, lenientISO)
            type   == convertRawType(call.arg.type)
            shares == parseNumberWithAutoLocale(call.arg.shares)
            price  == parseNumberWithAutoLocale(call.arg.price)
            fees   == parseNumberWithAutoLocale(call.arg.totalFees)
        IN  /\ out.ok <=> (date.ok /\ type.ok /\ shares.ok /\ price.ok /\ fees.ok)
            /\ ~date.ok => out = Threw(InvalidDateMsg, call.arg.executionDate)
            /\ (date.ok /\ ~type.ok) => out = Threw(InvalidTypeMsg, call.arg.type)
            /\ (date.ok /\ type.ok /\ ~(shares.ok /\ price.ok /\ fees.ok)) =>
                   (~out.ok /\ out.error.message = NumberParseMsg)

C8_Witness ==
    /\ CalledTransaction
    /\ tz = 0
    /\ call.arg.executionDate = FormatShort(2025, 6, 31, "/", "/")
    /\ call.arg.type = ""
    /\ out = Threw(InvalidDateMsg, call.arg.executionDate)

\* C9: when convertToTransaction returns, the exchange of the result is
\* null.
C9_ExchangeNull ==
    (CalledTransaction /\ out.ok) => out.value.exchange = Null

C9_Witness ==
    /\ CalledTransaction
    /\ out.ok
    /\ out.value.type = "SELL"
    /\ out.value.exchange = Null

\* C10: getDateObject decides and returns the same for a text on every
\* local offset from UTC.
C10_TimeZoneIndependent ==
    CalledOnText =>
        \A other \in TZOffsets :
            getDateObject(call.arg, other, lenientISO) = out

====
